---- MODULE Spec2Model ----
(***************************************************************************)
(* LinkList (src/app/page.tsx): an editable, reorderable list of links     *)
(* with a title, a JSON text buffer mirroring both, local file save/load   *)
(* and a read-only mode.                                                   *)
(*                                                                         *)
(* Text is modelled at the level of lexical tokens: a JSON text is a       *)
(* sequence of tokens (punctuation, string literals, numbers, bare words), *)
(* whitespace left out.  JSON.stringify builds such a sequence and         *)
(* JSON.parse is a recursive-descent parser over it.  String contents are  *)
(* atoms: quoting and escaping inside one literal are not modelled.        *)
(* Array elements of the texts the model feeds in are link-item objects    *)
(* (string id, label and url); the title of a text is a string or absent.  *)
(***************************************************************************)
EXTENDS Integers, Sequences, FiniteSets, TLC

VARIABLES title, links, isJsonOpen, isReadOnly, jsonString, jsonError,
          reading, lastOp

vars == <<title, links, isJsonOpen, isReadOnly, jsonString, jsonError,
          reading, lastOp>>

(***************************************************************************)
(* Bounds of the model.                                                    *)
(***************************************************************************)
MaxLinks == 2
MaxReading == 1

(***************************************************************************)
(* Tokens.  k: "p" punctuation, "s" string literal, "n" number, "w" bare   *)
(* word; v: the character, the string's content, the digits, the word;     *)
(* e: the token is percent-encoded (encodeURIComponent).                   *)
(***************************************************************************)
P(c) == [k |-> "p", v |-> c, e |-> FALSE]
S(s) == [k |-> "s", v |-> s, e |-> FALSE]
N(d) == [k |-> "n", v |-> d, e |-> FALSE]
W(w) == [k |-> "w", v |-> w, e |-> FALSE]

LinkItem(id, label, url) == [id |-> id, label |-> label, url |-> url]

(***************************************************************************)
(* JSON.stringify(value, null, 2) of a link item, of an array of link      *)
(* items and of {title, items}.  Keys come out in insertion order.         *)
(***************************************************************************)
StringifyItem(link) ==
    << P("{"), S("id"), P(":"), S(link.id), P(","),
       S("label"), P(":"), S(link.label), P(","),
       S("url"), P(":"), S(link.url), P("}") >>

RECURSIVE StringifyElements(_)
StringifyElements(items) ==
    IF Len(items) = 0 THEN << >>
    ELSE IF Len(items) = 1 THEN StringifyItem(items[1])
    ELSE StringifyItem(items[1]) \o << P(",") >> \o StringifyElements(Tail(items))

StringifyArray(items) == << P("[") >> \o StringifyElements(items) \o << P("]") >>

StringifyData(t, items) ==
    << P("{"), S("title"), P(":"), S(t), P(","), S("items"), P(":") >>
        \o StringifyArray(items) \o << P("}") >>

(***************************************************************************)
(* JSON.parse.  The result is a view of the parsed value holding what the  *)
(* program reads from it: its type t, its string s, for an array its       *)
(* elements as link items (arr; shaped says every element is an object     *)
(* with exactly string id, label and url), for an object the type and      *)
(* string of the properties named in PropKeys and the array under items.   *)
(* A later duplicate key overwrites an earlier one.                        *)
(***************************************************************************)
PropKeys == {"title", "items", "id", "label", "url"}

NoProps == [key \in PropKeys |-> [t |-> "undefined", s |-> ""]]

SyntaxError ==
    [ok |-> FALSE, next |-> 0, t |-> "undefined", s |-> "", arr |-> << >>,
     shaped |-> TRUE, props |-> NoProps, itemsArr |-> << >>,
     itemsShaped |-> TRUE, other |-> FALSE]

ScalarValue(t, s, next) ==
    [SyntaxError EXCEPT !.ok = TRUE, !.t = t, !.s = s, !.next = next]

ArrayValue(arr, shaped, next) ==
    [SyntaxError EXCEPT !.ok = TRUE, !.t = "array", !.arr = arr,
                        !.shaped = shaped, !.next = next]

EmptyObject == [SyntaxError EXCEPT !.ok = TRUE, !.t = "object"]

IsLinkItemValue(v) ==
    /\ v.t = "object"
    /\ ~v.other
    /\ \A key \in {"id", "label", "url"} : v.props[key].t = "string"
    /\ \A key \in {"title", "items"} : v.props[key].t = "undefined"

ItemOf(v) == LinkItem(v.props["id"].s, v.props["label"].s, v.props["url"].s)

SetProp(obj, key, v) ==
    IF key \notin PropKeys THEN [obj EXCEPT !.other = TRUE]
    ELSE IF key = "items"
         THEN [obj EXCEPT !.props[key] = [t |-> v.t, s |-> v.s],
                          !.itemsArr = v.arr, !.itemsShaped = v.shaped]
         ELSE [obj EXCEPT !.props[key] = [t |-> v.t, s |-> v.s]]

RECURSIVE ParseValue(_, _), ParseElements(_, _, _, _), ParseMembers(_, _, _)

ParseValue(toks, i) ==
    IF i > Len(toks) \/ toks[i].e THEN SyntaxError
    ELSE LET tk == toks[i] IN
         CASE tk.k = "s" -> ScalarValue("string", tk.v, i + 1)
           [] tk.k = "n" -> ScalarValue("number", tk.v, i + 1)
           [] tk.k = "w" /\ tk.v = "null" -> ScalarValue("null", tk.v, i + 1)
           [] tk.k = "w" /\ tk.v \in {"true", "false"} ->
                  ScalarValue("boolean", tk.v, i + 1)
           [] tk.k = "p" /\ tk.v = "[" ->
                  IF i + 1 <= Len(toks) /\ toks[i + 1] = P("]")
                  THEN ArrayValue(<< >>, TRUE, i + 2)
                  ELSE ParseElements(toks, i + 1, << >>, TRUE)
           [] tk.k = "p" /\ tk.v = "{" ->
                  IF i + 1 <= Len(toks) /\ toks[i + 1] = P("}")
                  THEN [EmptyObject EXCEPT !.next = i + 2]
                  ELSE ParseMembers(toks, i + 1, EmptyObject)
           [] OTHER -> SyntaxError

ParseElements(toks, i, acc, shaped) ==
    LET v == ParseValue(toks, i) IN
    IF ~v.ok \/ v.next > Len(toks) THEN SyntaxError
    ELSE LET acc2 == Append(acc, ItemOf(v))
             shaped2 == shaped /\ IsLinkItemValue(v)
         IN  IF toks[v.next] = P(",")
             THEN ParseElements(toks, v.next + 1, acc2, shaped2)
             ELSE IF toks[v.next] = P("]")
                  THEN ArrayValue(acc2, shaped2, v.next + 1)
                  ELSE SyntaxError

ParseMembers(toks, i, obj) ==
    IF i + 1 > Len(toks) \/ toks[i].k # "s" \/ toks[i].e \/ toks[i + 1] # P(":")
    THEN SyntaxError
    ELSE LET v == ParseValue(toks, i + 2) IN
         IF ~v.ok \/ v.next > Len(toks) THEN SyntaxError
         ELSE LET obj2 == SetProp(obj, toks[i].v, v) IN
              IF toks[v.next] = P(",")
              THEN ParseMembers(toks, v.next + 1, obj2)
              ELSE IF toks[v.next] = P("}")
                   THEN [obj2 EXCEPT !.next = v.next + 1]
                   ELSE SyntaxError

JSONparse(text) ==
    LET v == ParseValue(text, 1) IN
    IF v.ok /\ v.next = Len(text) + 1 THEN v ELSE SyntaxError

(***************************************************************************)
(* The tests the program makes on a parsed value.                          *)
(***************************************************************************)
IsArray(parsed) == parsed.ok /\ parsed.t = "array"

HasItemsArray(parsed) ==
    parsed.ok /\ parsed.t = "object" /\ parsed.props["items"].t = "array"

Truthy(prop) ==
    CASE prop.t = "string" -> prop.s # ""
      [] prop.t = "number" -> prop.s # "0"
      [] prop.t = "boolean" -> prop.s = "true"
      [] prop.t \in {"array", "object"} -> TRUE
      [] OTHER -> FALSE

(***************************************************************************)
(* encodeURIComponent escapes every character outside A-Z a-z 0-9 and      *)
(* - _ . ! ~ * ' ( ): punctuation and the quotes of string literals.  The  *)
(* browser decodes the body of the data: URL when it writes the download.  *)
(***************************************************************************)
EncodeURIComponent(text) ==
    [i \in DOMAIN text |->
        IF text[i].k \in {"p", "s"} THEN [text[i] EXCEPT !.e = TRUE] ELSE text[i]]

PercentDecode(text) == [i \in DOMAIN text |-> [text[i] EXCEPT !.e = FALSE]]

(***************************************************************************)
(* Inputs.  The values a user types into a label or url field and into the *)
(* title field, the identifiers crypto.randomUUID can return, and the      *)
(* texts typed into the JSON editor or held by a chosen file.              *)
(***************************************************************************)
Null == "null"

FieldValues == {"x"}
TitleValues == {"", "My Useful Links"}
UUIDs == {"u1"}

ItemA == LinkItem("1", "x", "x")
ItemB == LinkItem("1", "Google", "x")
ItemC == LinkItem("2", "GitHub", "x")

TextTruncated == << P("{"), S("title"), P(":") >>
TextNoItems == << P("{"), S("title"), P(":"), S("My Useful Links"), P("}") >>
TextDuplicateIds == StringifyArray(<< ItemA, ItemB >>)
TextObject == StringifyData("My Useful Links", << ItemA >>)
TextEmptyTitle == StringifyData("", << ItemC >>)
TextNoTitle == << P("{"), S("items"), P(":") >> \o StringifyArray(<< >>) \o << P("}") >>

InputTexts ==
    { TextTruncated, TextNoItems, TextDuplicateIds, TextObject, TextEmptyTitle,
      TextNoTitle }

NoFile == << >>

(***************************************************************************)
(* The record of the last handler that ran: its arguments, the number of   *)
(* rows when it ran and the alert it raised.                               *)
(***************************************************************************)
Op(name) ==
    [op |-> name, id |-> "", field |-> "", value |-> "", over |-> "",
     text |-> << >>, alert |-> "", rows |-> Len(links)]

(***************************************************************************)
(* Init: the state after the first render and the first run of the sync    *)
(* effect (the editor panel is closed).                                    *)
(***************************************************************************)
InitialTitle == "My Useful Links"
InitialLinks ==
    << LinkItem("1", "Google", "https://google.com"),
       LinkItem("2", "GitHub", "https://github.com") >>

Init ==
    /\ title = InitialTitle
    /\ links = InitialLinks
    /\ isJsonOpen = FALSE
    /\ isReadOnly = FALSE
    /\ jsonString = StringifyData(InitialTitle, InitialLinks)
    /\ jsonError = Null
    /\ reading = << >>
    /\ lastOp = Op("mount")

(***************************************************************************)
(* The sync effect, run after a render in which links (a new array), title *)
(* or isJsonOpen changed: with the panel closed it overwrites the buffer.  *)
(* buffer is the value the handler left in jsonString.                     *)
(***************************************************************************)
(* Variant: the effect overwrites the buffer with the panel open too. *)
SyncEffectAlways(depsChanged, t, items, open, buffer) ==
    IF depsChanged THEN StringifyData(t, items) ELSE buffer

SyncEffect(depsChanged, t, items, open, buffer) ==
    IF depsChanged /\ ~open THEN StringifyData(t, items) ELSE buffer

(***************************************************************************)
(* One render: the handler's state updates, then the effect.               *)
(***************************************************************************)
Render(t, items, linksSet, open, buffer, error) ==
    /\ title' = t
    /\ links' = items
    /\ isJsonOpen' = open
    /\ jsonError' = error
    /\ jsonString' =
          SyncEffect(linksSet \/ t # title \/ open # isJsonOpen, t, items, open, buffer)

SetLinks(items) == Render(title, items, TRUE, isJsonOpen, jsonString, jsonError)

(***************************************************************************)
(* The list handlers.                                                      *)
(***************************************************************************)
(* Variant: the new row goes to the top of the list. *)
addLinkFirst(items, uuid) == << LinkItem(uuid, "", "") >> \o items

(* Variant: the new row's id is its row number. *)
addLinkRowNumber(items, uuid) ==
    Append(items, LinkItem(IF Len(items) = 0 THEN "1" ELSE "2", "", ""))

addLink(items, uuid) == Append(items, LinkItem(uuid, "", ""))

(* Variant: the new value goes to every row. *)
updateLinkEveryRow(items, id, field, value) ==
    [i \in DOMAIN items |-> [items[i] EXCEPT ![field] = value]]

(* Variant: the row is rebuilt from the edited field alone. *)
updateLinkFieldOnly(items, id, field, value) ==
    [i \in DOMAIN items |->
        IF items[i].id = id
        THEN [LinkItem("", "", "") EXCEPT ![field] = value] ELSE items[i]]

updateLink(items, id, field, value) ==
    [i \in DOMAIN items |->
        IF items[i].id = id THEN [items[i] EXCEPT ![field] = value] ELSE items[i]]

RECURSIVE Filter(_, _)
Filter(items, id) ==
    IF items = << >> THEN << >>
    ELSE IF Head(items).id # id THEN << Head(items) >> \o Filter(Tail(items), id)
         ELSE Filter(Tail(items), id)

(* Variant: only the first row with the identifier goes. *)
RECURSIVE removeLinkFirst(_, _)
removeLinkFirst(items, id) ==
    IF items = << >> THEN << >>
    ELSE IF Head(items).id = id THEN Tail(items)
         ELSE << Head(items) >> \o removeLinkFirst(Tail(items), id)

removeLink(items, id) == Filter(items, id)

(* Array.prototype.findIndex, 0-based, -1 when no element matches *)
FindIndex(items, id) ==
    IF \E i \in DOMAIN items : items[i].id = id
    THEN (CHOOSE i \in DOMAIN items :
             items[i].id = id /\ \A j \in 1..(i - 1) : items[j].id # id) - 1
    ELSE -1

(* arrayMove of @dnd-kit/sortable: splice the element out, splice it in;   *)
(* a negative index counts from the end.                                   *)
(* Variant: the two rows trade places. *)
ArraySwap(items, from, to) ==
    [i \in DOMAIN items |->
        IF i = from + 1 THEN items[to + 1]
        ELSE IF i = to + 1 THEN items[from + 1] ELSE items[i]]

ArrayMove(items, from, to) ==
    LET n == Len(items)
        f == IF from < 0 THEN n + from ELSE from
        t == IF to < 0 THEN n + to ELSE to
        rest == [i \in 1..(n - 1) |-> IF i <= f THEN items[i] ELSE items[i + 1]]
    IN  [i \in 1..n |->
            IF i <= t THEN rest[i]
            ELSE IF i = t + 1 THEN items[f + 1]
            ELSE rest[i - 1]]

handleDragEnd(items, active, over) ==
    ArrayMove(items, FindIndex(items, active), FindIndex(items, over))

(***************************************************************************)
(* Actions: one per control of the page.  The field inputs, the title      *)
(* input, the drag handles, the add and the remove buttons are rendered    *)
(* only when isReadOnly is false.                                          *)
(***************************************************************************)
Ids(items) == { items[i].id : i \in DOMAIN items }

AddLink ==
    /\ ~isReadOnly
    /\ Len(links) < MaxLinks
    /\ \E uuid \in UUIDs \ Ids(links) :
          /\ SetLinks(addLink(links, uuid))
          /\ lastOp' = [Op("addLink") EXCEPT !.id = uuid]
    /\ UNCHANGED <<isReadOnly, reading>>

UpdateLink ==
    /\ ~isReadOnly
    /\ \E i \in DOMAIN links, field \in {"label", "url"}, value \in FieldValues :
          /\ SetLinks(updateLink(links, links[i].id, field, value))
          /\ lastOp' = [Op("updateLink") EXCEPT !.id = links[i].id,
                                                 !.field = field, !.value = value]
    /\ UNCHANGED <<isReadOnly, reading>>

RemoveLink ==
    /\ ~isReadOnly
    /\ \E i \in DOMAIN links :
          /\ SetLinks(removeLink(links, links[i].id))
          /\ lastOp' = [Op("removeLink") EXCEPT !.id = links[i].id]
    /\ UNCHANGED <<isReadOnly, reading>>

HandleDragEnd ==
    /\ ~isReadOnly
    /\ \E i \in DOMAIN links, over \in Ids(links) \cup {Null} :
          /\ IF over # Null /\ links[i].id # over
             THEN SetLinks(handleDragEnd(links, links[i].id, over))
             ELSE UNCHANGED <<title, links, isJsonOpen, jsonString, jsonError>>
          /\ lastOp' = [Op("handleDragEnd") EXCEPT !.id = links[i].id, !.over = over]
    /\ UNCHANGED <<isReadOnly, reading>>

(* Variant: the title field is rendered in read-only mode too. *)
TitleEditUnguarded ==
    /\ \E value \in TitleValues :
          /\ Render(value, links, FALSE, isJsonOpen, jsonString, jsonError)
          /\ lastOp' = [Op("setTitle") EXCEPT !.value = value]
    /\ UNCHANGED <<isReadOnly, reading>>

TitleEdit ==
    /\ ~isReadOnly
    /\ \E value \in TitleValues :
          /\ Render(value, links, FALSE, isJsonOpen, jsonString, jsonError)
          /\ lastOp' = [Op("setTitle") EXCEPT !.value = value]
    /\ UNCHANGED <<isReadOnly, reading>>

ToggleReadOnly ==
    /\ isReadOnly' = ~isReadOnly
    /\ lastOp' = Op("setIsReadOnly")
    /\ UNCHANGED <<title, links, isJsonOpen, jsonString, jsonError, reading>>

ToggleJsonOpen ==
    /\ Render(title, links, FALSE, ~isJsonOpen, jsonString, jsonError)
    /\ lastOp' = Op("setIsJsonOpen")
    /\ UNCHANGED <<isReadOnly, reading>>

(***************************************************************************)
(* handleJsonChange: the textarea is in the page whether the panel is open *)
(* or closed.                                                              *)
(***************************************************************************)
InvalidSyntax == "Invalid JSON syntax"
InvalidFormat == "Invalid format: Expected array or { title, items: [] }"

(* Variant: the handler without its read-only return. *)
handleJsonChangeUnguarded(newValue) ==
    LET parsed == JSONparse(newValue) IN
    IF ~parsed.ok
    THEN Render(title, links, FALSE, isJsonOpen, newValue, InvalidSyntax)
    ELSE IF IsArray(parsed)
    THEN Render(title, parsed.arr, TRUE, isJsonOpen, newValue, Null)
    ELSE IF HasItemsArray(parsed)
    THEN Render(IF Truthy(parsed.props["title"])
                   THEN parsed.props["title"].s ELSE title,
                parsed.itemsArr, TRUE, isJsonOpen, newValue, Null)
    ELSE Render(title, links, FALSE, isJsonOpen, newValue, InvalidFormat)

(* Variant: a value of the wrong shape is taken as an empty list. *)
handleJsonChangeLenient(newValue) ==
    IF isReadOnly
    THEN UNCHANGED <<title, links, isJsonOpen, jsonString, jsonError>>
    ELSE LET parsed == JSONparse(newValue) IN
         IF ~parsed.ok
         THEN Render(title, links, FALSE, isJsonOpen, newValue, InvalidSyntax)
         ELSE IF IsArray(parsed)
         THEN Render(title, parsed.arr, TRUE, isJsonOpen, newValue, Null)
         ELSE IF HasItemsArray(parsed)
         THEN Render(IF Truthy(parsed.props["title"])
                        THEN parsed.props["title"].s ELSE title,
                     parsed.itemsArr, TRUE, isJsonOpen, newValue, Null)
         ELSE Render(title, << >>, TRUE, isJsonOpen, newValue, InvalidFormat)

(* Variant: the title of the text is taken whenever the key is present. *)
handleJsonChangeAnyTitle(newValue) ==
    IF isReadOnly
    THEN UNCHANGED <<title, links, isJsonOpen, jsonString, jsonError>>
    ELSE LET parsed == JSONparse(newValue) IN
         IF ~parsed.ok
         THEN Render(title, links, FALSE, isJsonOpen, newValue, InvalidSyntax)
         ELSE IF IsArray(parsed)
         THEN Render(title, parsed.arr, TRUE, isJsonOpen, newValue, Null)
         ELSE IF HasItemsArray(parsed)
         THEN Render(IF parsed.props["title"].t # "undefined"
                        THEN parsed.props["title"].s ELSE title,
                     parsed.itemsArr, TRUE, isJsonOpen, newValue, Null)
         ELSE Render(title, links, FALSE, isJsonOpen, newValue, InvalidFormat)

handleJsonChange(newValue) ==
    IF isReadOnly
    THEN UNCHANGED <<title, links, isJsonOpen, jsonString, jsonError>>
    ELSE LET parsed == JSONparse(newValue) IN
         IF ~parsed.ok
         THEN Render(title, links, FALSE, isJsonOpen, newValue, InvalidSyntax)
         ELSE IF IsArray(parsed)
         THEN Render(title, parsed.arr, TRUE, isJsonOpen, newValue, Null)
         ELSE IF HasItemsArray(parsed)
         THEN Render(IF Truthy(parsed.props["title"])
                        THEN parsed.props["title"].s ELSE title,
                     parsed.itemsArr, TRUE, isJsonOpen, newValue, Null)
         ELSE Render(title, links, FALSE, isJsonOpen, newValue, InvalidFormat)

HandleJsonChange ==
    /\ \E newValue \in InputTexts :
          /\ handleJsonChange(newValue)
          /\ lastOp' = [Op("handleJsonChange") EXCEPT !.text = newValue]
    /\ UNCHANGED <<isReadOnly, reading>>

(***************************************************************************)
(* File save and load.  downloadJson hands the browser a data: URL; the    *)
(* file written holds its decoded body.  uploadJson starts a FileReader,   *)
(* whose onload runs later.                                                *)
(***************************************************************************)
(* Variant: the file holds the bare array. *)
DownloadedFileLegacy(t, items) ==
    PercentDecode(EncodeURIComponent(StringifyArray(items)))

DownloadedFile(t, items) ==
    PercentDecode(EncodeURIComponent(StringifyData(t, items)))

DownloadJson ==
    /\ lastOp' = [Op("downloadJson") EXCEPT !.text = DownloadedFile(title, links)]
    /\ UNCHANGED <<title, links, isJsonOpen, isReadOnly, jsonString, jsonError, reading>>

(* the files the user can pick: prepared ones, and the one just saved *)
Files ==
    InputTexts \cup (IF lastOp.op = "downloadJson" THEN {lastOp.text} ELSE {})

UploadJson ==
    /\ Len(reading) < MaxReading
    /\ \E file \in Files \cup {NoFile} :
          /\ reading' = IF file = NoFile THEN reading ELSE Append(reading, file)
          /\ lastOp' = [Op("uploadJson") EXCEPT !.text = file]
    /\ UNCHANGED <<title, links, isJsonOpen, isReadOnly, jsonString, jsonError>>

AlertInvalidFile == "File is not a valid LinkList file."
AlertParseError == "Error parsing JSON file."

(* Variant: a file of the wrong shape empties the list. *)
onloadResultClearing(text, t, items) ==
    LET parsed == JSONparse(text) IN
    IF ~parsed.ok
    THEN [title |-> t, links |-> items, set |-> FALSE, alert |-> AlertParseError]
    ELSE IF IsArray(parsed)
    THEN [title |-> "Imported List", links |-> parsed.arr, set |-> TRUE, alert |-> ""]
    ELSE IF HasItemsArray(parsed)
    THEN [title |-> IF Truthy(parsed.props["title"])
                    THEN parsed.props["title"].s ELSE "Untitled List",
          links |-> parsed.itemsArr, set |-> TRUE, alert |-> ""]
    ELSE [title |-> "Untitled List", links |-> << >>, set |-> TRUE,
          alert |-> AlertInvalidFile]

(* Variant: a bare array keeps the title, as in the JSON editor. *)
onloadResultKeepTitle(text, t, items) ==
    LET parsed == JSONparse(text) IN
    IF ~parsed.ok
    THEN [title |-> t, links |-> items, set |-> FALSE, alert |-> AlertParseError]
    ELSE IF IsArray(parsed)
    THEN [title |-> t, links |-> parsed.arr, set |-> TRUE, alert |-> ""]
    ELSE IF HasItemsArray(parsed)
    THEN [title |-> IF Truthy(parsed.props["title"])
                    THEN parsed.props["title"].s ELSE "Untitled List",
          links |-> parsed.itemsArr, set |-> TRUE, alert |-> ""]
    ELSE [title |-> t, links |-> items, set |-> FALSE, alert |-> AlertInvalidFile]

onloadResult(text, t, items) ==
    LET parsed == JSONparse(text) IN
    IF ~parsed.ok
    THEN [title |-> t, links |-> items, set |-> FALSE, alert |-> AlertParseError]
    ELSE IF IsArray(parsed)
    THEN [title |-> "Imported List", links |-> parsed.arr, set |-> TRUE, alert |-> ""]
    ELSE IF HasItemsArray(parsed)
    THEN [title |-> IF Truthy(parsed.props["title"])
                    THEN parsed.props["title"].s ELSE "Untitled List",
          links |-> parsed.itemsArr, set |-> TRUE, alert |-> ""]
    ELSE [title |-> t, links |-> items, set |-> FALSE, alert |-> AlertInvalidFile]

onload(text) ==
    LET r == onloadResult(text, title, links) IN
    /\ Render(r.title, r.links, r.set, isJsonOpen, jsonString, jsonError)
    /\ lastOp' = [Op("onload") EXCEPT !.text = text, !.alert = r.alert]

RemoveAt(seq, i) == [j \in 1..(Len(seq) - 1) |-> IF j < i THEN seq[j] ELSE seq[j + 1]]

ReaderOnload ==
    /\ \E i \in DOMAIN reading :
          /\ onload(reading[i])
          /\ reading' = RemoveAt(reading, i)
    /\ UNCHANGED isReadOnly

Next ==
    \/ AddLink
    \/ UpdateLink
    \/ RemoveLink
    \/ HandleDragEnd
    \/ TitleEdit
    \/ ToggleReadOnly
    \/ ToggleJsonOpen
    \/ HandleJsonChange
    \/ DownloadJson
    \/ UploadJson
    \/ ReaderOnload

Spec == Init /\ [][Next]_vars

(***************************************************************************)
(* The page's behaviours by group of controls.  Every behaviour of one of  *)
(* these is a behaviour of Spec; each keeps the reachable states within    *)
(* what can be enumerated.                                                 *)
(*   SpecList:  the list and title controls, read-only mode and typing in  *)
(*              the textarea, the editor panel staying closed;             *)
(*   SpecPanel: the editor panel opened and closed, typing, and the        *)
(*              controls that change title and links while it is open;     *)
(*   SpecFile:  save and load;                                             *)
(*   SpecRows:  the row controls on a list that was loaded from a file     *)
(*              holding a bare array of up to MaxRows items.               *)
(*   SpecOpen:  the list, title, read-only and load controls used while    *)
(*              the editor panel stays open, the panel having been opened  *)
(*              on a list loaded from a file with no title and no items.   *)
(***************************************************************************)
NextList ==
    \/ AddLink
    \/ UpdateLink
    \/ RemoveLink
    \/ HandleDragEnd
    \/ TitleEdit
    \/ ToggleReadOnly
    \/ HandleJsonChange

SpecList == Init /\ [][NextList]_vars

NextPanel ==
    \/ ToggleJsonOpen
    \/ HandleJsonChange
    \/ TitleEdit
    \/ RemoveLink
    \/ ToggleReadOnly

SpecPanel == Init /\ [][NextPanel]_vars

NextFile ==
    \/ DownloadJson
    \/ UploadJson
    \/ ReaderOnload
    \/ TitleEdit
    \/ RemoveLink
    \/ ToggleReadOnly

SpecFile == Init /\ [][NextFile]_vars

MaxRows == 3
ItemPool == { ItemA, ItemB, ItemC, LinkItem("u1", "", "") }

RECURSIVE ListsUpTo(_)
ListsUpTo(n) ==
    IF n = 0 THEN { << >> }
    ELSE LET shorter == ListsUpTo(n - 1) IN
         shorter \cup { Append(l, item) : l \in shorter, item \in ItemPool }

InitRows ==
    /\ links \in ListsUpTo(MaxRows)
    /\ title = "Imported List"
    /\ isJsonOpen = FALSE
    /\ isReadOnly = FALSE
    /\ jsonString = StringifyData(title, links)
    /\ jsonError = Null
    /\ reading = << >>
    /\ lastOp = [Op("onload") EXCEPT !.text = StringifyArray(links)]

NextRows ==
    \/ AddLink
    \/ UpdateLink
    \/ RemoveLink
    \/ HandleDragEnd

SpecRows == InitRows /\ [][NextRows]_vars

InitOpen ==
    /\ title = "Untitled List"
    /\ links = << >>
    /\ isJsonOpen = TRUE
    /\ isReadOnly = FALSE
    /\ jsonString = StringifyData(title, links)
    /\ jsonError = Null
    /\ reading = << >>
    /\ lastOp = Op("setIsJsonOpen")

NextOpen ==
    \/ AddLink
    \/ UpdateLink
    \/ RemoveLink
    \/ HandleDragEnd
    \/ TitleEdit
    \/ ToggleReadOnly
    \/ UploadJson
    \/ ReaderOnload

SpecOpen == InitOpen /\ [][NextOpen]_vars

(***************************************************************************)
(* Properties.                                                             *)
(***************************************************************************)
Acceptable(text) ==
    LET parsed == JSONparse(text) IN IsArray(parsed) \/ HasItemsArray(parsed)

MutationControls ==
    {"updateLink", "setTitle", "handleDragEnd", "addLink", "removeLink",
     "handleJsonChange"}

(* C1: whenever the JSON editor panel is closed, jsonString is the         *)
(* serialization of {title, items: links} for the current title and links. *)
C1_MirrorWhenClosed ==
    ~isJsonOpen => jsonString = StringifyData(title, links)

(* C2: while isReadOnly is true, a step of a mutation control (field edit, *)
(* title edit, drag, addLink, removeLink, handleJsonChange) leaves title,  *)
(* links, jsonString and jsonError unchanged.                              *)
C2_ReadOnlyControls ==
    [][(isReadOnly /\ lastOp'.op \in MutationControls)
          => UNCHANGED <<title, links, jsonString, jsonError>>]_vars

C2_Witness ==
    /\ isReadOnly
    /\ lastOp.op = "handleJsonChange"
    /\ Acceptable(lastOp.text)
    /\ jsonString # lastOp.text

(* C3: handleJsonChange in edit mode with a text that does not parse, or   *)
(* parses to neither an array nor an object with an items array, leaves    *)
(* title and links unchanged, makes jsonString the typed text and sets     *)
(* jsonError: the syntax message for a parse failure, the format message   *)
(* for a wrong shape.                                                      *)
C3_RejectedJsonEdit ==
    [][(lastOp'.op = "handleJsonChange" /\ ~isReadOnly /\ ~Acceptable(lastOp'.text))
          => /\ title' = title
             /\ links' = links
             /\ jsonString' = lastOp'.text
             /\ jsonError' # Null
             /\ jsonError' = IF JSONparse(lastOp'.text).ok
                             THEN InvalidFormat ELSE InvalidSyntax]_vars

C3_Witness ==
    /\ lastOp.op = "handleJsonChange"
    /\ isJsonOpen
    /\ jsonString = TextNoItems
    /\ jsonError = InvalidFormat
    /\ links # << >>

(* C4 as stated: an accepted edit whose text is an object with a title     *)
(* field and an items array makes links the items, title the title of the  *)
(* text and jsonError null; a bare array makes links the array, leaves     *)
(* title and makes jsonError null.                                         *)
C4_AcceptedJsonEditAnyTitle ==
    [][(lastOp'.op = "handleJsonChange" /\ ~isReadOnly /\ Acceptable(lastOp'.text))
          => LET parsed == JSONparse(lastOp'.text) IN
             IF IsArray(parsed)
             THEN links' = parsed.arr /\ title' = title /\ jsonError' = Null
             ELSE parsed.props["title"].t # "undefined"
                     => /\ links' = parsed.itemsArr
                        /\ parsed.props["title"].t = "string"
                        /\ title' = parsed.props["title"].s
                        /\ jsonError' = Null]_vars

(* C4 amended: an accepted edit whose text is an object with an items      *)
(* array makes links the items and jsonError null, and makes title the     *)
(* title of the text when that is truthy (a non-empty string), leaving     *)
(* title unchanged when it is missing or empty; a bare array makes links   *)
(* the array, leaves title and makes jsonError null.                       *)
C4_AcceptedJsonEdit ==
    [][(lastOp'.op = "handleJsonChange" /\ ~isReadOnly /\ Acceptable(lastOp'.text))
          => LET parsed == JSONparse(lastOp'.text)
                 t == parsed.props["title"]
             IN  IF IsArray(parsed)
                 THEN links' = parsed.arr /\ title' = title /\ jsonError' = Null
                 ELSE /\ links' = parsed.itemsArr
                      /\ jsonError' = Null
                      /\ (t.t = "string" /\ t.s # "") => title' = t.s
                      /\ (t.t \in {"undefined", "null"} \/ t.s = "") => title' = title]_vars

C4_Witness ==
    /\ lastOp.op = "handleJsonChange"
    /\ lastOp.text = TextEmptyTitle
    /\ ~isReadOnly
    /\ links = << ItemC >>
    /\ title = InitialTitle
    /\ jsonError = Null

(* C5: a field edit (updateLink) keeps the number of rows and the id of    *)
(* every row; a drag keeps the multiset of rows, so each item keeps its    *)
(* id; and a step that changes the multiset of ids is a step of addLink,   *)
(* removeLink, a JSON edit or a file load.                                 *)
IdCount(items, id) == Cardinality({ i \in DOMAIN items : items[i].id = id })

ItemCount(items, item) == Cardinality({ i \in DOMAIN items : items[i] = item })

SameIds(a, b) == \A id \in Ids(a) \cup Ids(b) : IdCount(a, id) = IdCount(b, id)

SameItems(a, b) ==
    /\ Len(a) = Len(b)
    /\ \A i \in DOMAIN a : ItemCount(a, a[i]) = ItemCount(b, a[i])

C5_StableIds ==
    [][/\ lastOp'.op = "updateLink"
          => /\ Len(links') = Len(links)
             /\ \A i \in DOMAIN links : links'[i].id = links[i].id
       /\ lastOp'.op = "handleDragEnd"
          => SameItems(links, links') /\ SameIds(links, links')
       /\ ~SameIds(links, links')
          => lastOp'.op \in {"addLink", "removeLink", "handleJsonChange", "onload"}]_vars

C5_Witness ==
    /\ lastOp.op = "handleDragEnd"
    /\ lastOp.over \notin {Null, lastOp.id}
    /\ Len(links) = 2
    /\ links[1].id = "2" /\ links[2].id = "1"
    /\ links[1].label = "x" /\ links[2].url = "x"

(* C6 as stated: for every title and links, loading the file downloadJson  *)
(* writes for them yields that title and those links.                      *)
LoadedFrom(text) == onloadResult(text, "Imported List", << >>)

C6_RoundTripAnyTitle ==
    /\ LoadedFrom(DownloadedFile(title, links)).title = title
    /\ LoadedFrom(DownloadedFile(title, links)).links = links

(* C6 amended: for every non-empty title and every links, loading the file *)
(* downloadJson writes for them yields that title and those links (an      *)
(* empty title comes back as "Untitled List").                             *)
C6_RoundTrip ==
    /\ title # "" => LoadedFrom(DownloadedFile(title, links)).title = title
    /\ title = "" => LoadedFrom(DownloadedFile(title, links)).title = "Untitled List"
    /\ LoadedFrom(DownloadedFile(title, links)).links = links
    /\ LoadedFrom(DownloadedFile(title, links)).alert = ""

C6_Witness ==
    /\ lastOp.op = "onload"
    /\ lastOp.alert = ""
    /\ lastOp.text = DownloadedFile(title, links)
    /\ title = InitialTitle
    /\ Len(links) = 1

(* C7: a file whose text does not parse, or parses to neither an array nor *)
(* an object with an items array, changes none of title, links, jsonString *)
(* and jsonError when it is chosen and when it has been read; reading it   *)
(* raises an alert.                                                        *)
C7_FailedLoad ==
    [][/\ lastOp'.op = "uploadJson"
          => UNCHANGED <<title, links, jsonString, jsonError>>
       /\ (lastOp'.op = "onload" /\ ~Acceptable(lastOp'.text))
          => /\ UNCHANGED <<title, links, jsonString, jsonError>>
             /\ lastOp'.alert = IF JSONparse(lastOp'.text).ok
                                THEN AlertInvalidFile ELSE AlertParseError]_vars

C7_Witness ==
    /\ lastOp.op = "onload"
    /\ lastOp.text = TextNoItems
    /\ lastOp.alert = AlertInvalidFile
    /\ links = InitialLinks
    /\ jsonString = StringifyData(title, links)

(* C8: a drag whose over is not null and differs from active keeps the     *)
(* length and the multiset of items, puts the active item at the index the *)
(* over item had and keeps the other items in their order; a drag with a   *)
(* null over, or over equal to active, leaves links unchanged.  With an id *)
(* on several rows the item of an id is the first row that has it.         *)
First(items, id) ==
    CHOOSE i \in DOMAIN items :
        items[i].id = id /\ \A j \in DOMAIN items : items[j].id = id => i <= j

Drop(items, i) == SubSeq(items, 1, i - 1) \o SubSeq(items, i + 1, Len(items))

C8_DragMove ==
    [][lastOp'.op = "handleDragEnd"
          => LET active == lastOp'.id
                 over == lastOp'.over
             IN  IF over # Null /\ over # active
                 THEN /\ SameItems(links, links')
                      /\ links'[First(links, over)] = links[First(links, active)]
                      /\ Drop(links', First(links, over)) = Drop(links, First(links, active))
                 ELSE links' = links]_vars

C8_Witness ==
    /\ lastOp.op = "handleDragEnd"
    /\ lastOp.over \notin {Null, lastOp.id}
    /\ Len(links) = 3
    /\ links[3].id = lastOp.id
    /\ links[2].id = lastOp.over
    /\ links[1].id \notin {lastOp.id, lastOp.over}

(* C9: updateLink(id, field, value) sets the named field of the rows whose *)
(* id is id to value and changes nothing else: their id and other field,   *)
(* the rows with another id, the order, the length and title stay; for an  *)
(* id no row has, the result is links itself.                              *)
OtherField(field) == IF field = "label" THEN "url" ELSE "label"

KnownIds == {"1", "2", "u1", "u2"}

C9_UpdateLink ==
    [][/\ lastOp'.op = "updateLink"
          => LET id == lastOp'.id
                 field == lastOp'.field
             IN  /\ Len(links') = Len(links)
                 /\ title' = title
                 /\ \A i \in DOMAIN links :
                       IF links[i].id = id
                       THEN /\ links'[i].id = id
                            /\ links'[i][field] = lastOp'.value
                            /\ links'[i][OtherField(field)] = links[i][OtherField(field)]
                       ELSE links'[i] = links[i]
       /\ \A id \in KnownIds \ Ids(links), field \in {"label", "url"},
             value \in FieldValues : updateLink(links, id, field, value) = links]_vars

C9_Witness ==
    /\ lastOp.op = "updateLink"
    /\ \E i, j \in DOMAIN links :
          /\ links[i].id = lastOp.id
          /\ links[i][lastOp.field] = lastOp.value
          /\ links[i][OtherField(lastOp.field)] # lastOp.value
          /\ links[j].id # lastOp.id
          /\ links[j][lastOp.field] # lastOp.value
    /\ KnownIds \ Ids(links) # {}

(* C10 as stated: removeLink(id) removes exactly one item, the one with    *)
(* identifier id: the length decreases by 1 and the other items stay, in   *)
(* order.                                                                  *)
C10_RemovesExactlyOne ==
    [][lastOp'.op = "removeLink"
          => /\ Len(links') = Len(links) - 1
             /\ \E i \in DOMAIN links :
                   links[i].id = lastOp'.id /\ links' = Drop(links, i)]_vars

(* C10 amended: removeLink(id) removes every item whose identifier is id,  *)
(* at least one, and exactly one when no other row has that id: the length *)
(* decreases by the number of such items and the other items stay, in      *)
(* order.                                                                  *)
C10_RemoveLink ==
    [][lastOp'.op = "removeLink"
          => LET id == lastOp'.id IN
             /\ links' = SelectSeq(links, LAMBDA item : item.id # id)
             /\ IdCount(links, id) >= 1
             /\ Len(links') = Len(links) - IdCount(links, id)
             /\ IdCount(links, id) = 1
                   => \E i \in DOMAIN links :
                         links[i].id = id /\ links' = Drop(links, i)]_vars

C10_Witness ==
    /\ lastOp.op = "removeLink"
    /\ lastOp.rows = Len(links) + 2

(* C11: addLink appends exactly one item, with an empty label, an empty    *)
(* url and an id that no existing item has: links grows by one, the        *)
(* previous items are its prefix in the same order, and title is           *)
(* unchanged.                                                              *)
C11_AddLink ==
    [][lastOp'.op = "addLink"
          => /\ Len(links') = Len(links) + 1
             /\ SubSeq(links', 1, Len(links)) = links
             /\ links'[Len(links')] = LinkItem(lastOp'.id, "", "")
             /\ lastOp'.id \notin Ids(links)
             /\ title' = title]_vars

C11_Witness ==
    /\ lastOp.op = "addLink"
    /\ lastOp.rows = 1
    /\ Len(links) = 2
    /\ links[1] = ItemB
    /\ links[2] = LinkItem("u1", "", "")

(* C12: when a file that has been read parses to a bare array, links       *)
(* becomes that array and title becomes "Imported List"; when it parses to *)
(* an object with an items array, links becomes items and title becomes    *)
(* the object's title, or "Untitled List" when the title is missing or     *)
(* empty; both are replaced whatever they were before, and no alert is     *)
(* raised.                                                                 *)
TitleOfFile(parsed) ==
    IF parsed.props["title"].t = "undefined" \/ parsed.props["title"].s = ""
    THEN "Untitled List"
    ELSE parsed.props["title"].s

C12_SuccessfulLoad ==
    [][(lastOp'.op = "onload" /\ Acceptable(lastOp'.text))
          => LET parsed == JSONparse(lastOp'.text) IN
             /\ IsArray(parsed)
                   => links' = parsed.arr /\ title' = "Imported List"
             /\ ~IsArray(parsed)
                   => links' = parsed.itemsArr /\ title' = TitleOfFile(parsed)
             /\ lastOp'.alert = ""]_vars

C12_Witness ==
    /\ lastOp.op = "onload"
    /\ lastOp.text = TextEmptyTitle
    /\ lastOp.rows = 0
    /\ title = "Untitled List"
    /\ links = << ItemC >>

(* C13: while the JSON editor panel is open, only handleJsonChange (and    *)
(* closing the panel) writes the text buffer: addLink, updateLink,         *)
(* removeLink, a drag, a title edit, choosing a file, a completed file     *)
(* load and the read-only toggle leave jsonString unchanged.               *)
C13_OpenPanelBuffer ==
    [][(isJsonOpen /\ jsonString' # jsonString)
          => lastOp'.op \in {"handleJsonChange", "setIsJsonOpen"}]_vars

C13_Witness ==
    /\ isJsonOpen
    /\ isReadOnly
    /\ lastOp.op = "onload"
    /\ lastOp.text = TextDuplicateIds
    /\ title = "Imported List"
    /\ links = << ItemA, ItemB >>
    /\ jsonString = StringifyData("Untitled List", << >>)

(* C14: in every reachable state jsonError is non-null exactly when the    *)
(* text in jsonString is not acceptable (it does not parse, or parses to   *)
(* neither an array nor an object with an items array).                    *)
C14_ErrorMatchesBuffer ==
    jsonError # Null <=> ~Acceptable(jsonString)

(* C15 as stated: in every state reached by addLink, updateLink,           *)
(* removeLink, drags, JSON edits and file loads, the ids of the items in   *)
(* links are pairwise distinct.                                            *)
DistinctIds(items) ==
    \A i, j \in DOMAIN items : items[i].id = items[j].id => i = j

C15_UniqueIds == DistinctIds(links)

(* C15 amended: addLink, updateLink, removeLink, a drag, a title edit and  *)
(* the read-only toggle keep pairwise distinct ids pairwise distinct; only *)
(* a JSON edit or a file load, which install the ids their text holds,     *)
(* can bring in an id that is on two rows.                                 *)
C15_UniqueIdsKept ==
    [][(DistinctIds(links) /\ ~DistinctIds(links'))
          => lastOp'.op \in {"handleJsonChange", "onload"}]_vars

C15_Witness ==
    /\ lastOp.op = "addLink"
    /\ lastOp.rows = 1
    /\ Ids(links) = {"2", "u1"}
    /\ DistinctIds(links)

(* C16 as stated: from the moment isReadOnly becomes true until it becomes *)
(* false again, no operation changes title or links, a file load started   *)
(* or completed in that interval included.                                 *)
C16_ReadOnlyFrozen ==
    [][isReadOnly => title' = title /\ links' = links]_vars

(* C16 amended: while isReadOnly is true, title and links change only when *)
(* a file that has been read holds an array or an object with an items     *)
(* array; every other operation leaves them unchanged.                     *)
C16_ReadOnlyFreeze ==
    [][(isReadOnly /\ (title' # title \/ links' # links))
          => lastOp'.op = "onload" /\ Acceptable(lastOp'.text)]_vars

C16_Witness ==
    /\ isReadOnly
    /\ lastOp.op = "onload"
    /\ lastOp.text = TextObject
    /\ lastOp.rows = 2
    /\ title = InitialTitle
    /\ links = << ItemA >>

====
